---- MODULE Spec2Model ----
(***************************************************************************)
(* A model of sdfd: 2D signed distance field scenes (sdfd.hpp), their      *)
(* binary codec (serialize / store_to_file / load_from_file) and their     *)
(* evaluator (evaluate), in the two variants of the library found in the   *)
(* repository:                                                             *)
(*   "base"   : src/sdfd.hpp           (2-bit argument kind, scene pool)    *)
(*   "scaled" : src/unnamed/part_001   (1-bit argument kind, Scene::scale)  *)
(*                                                                         *)
(* Memory is modelled at the level serialize() sees it: a float is its 4   *)
(* bytes (IEEE-754 binary32, little-endian host), an integer field is its  *)
(* value, and serialize_buffer moves bytes between objects and the file.   *)
(* The evaluator interprets float bytes as numbers; the numbers of the     *)
(* model are the integers (exact arithmetic, no rounding), NaN and the     *)
(* infinities.                                                             *)
(***************************************************************************)
EXTENDS Integers, Sequences, FiniteSets, TLC

VARIABLES
    variant,   \* which build of the library runs: "base" or "scaled"
    phase,     \* position of the client: "build", "io", "loaded" (it took the
               \* loaded scene as its scene), "aborted"; "primitive"
               \* when a single primitive is evaluated
    scene,     \* the client's Scene
    fs,        \* the file at `path`: [exists, bytes, damaged, seekable], and
               \* `calls`: the stdio calls the last library call made on
               \* FILE handles, in order
    stored,    \* what the last store_to_file returned: "none", "true", "false"
    loaded,    \* what the last load_from_file returned (std::optional<Scene>)
    ev         \* the running / finished call of evaluate

vars == <<variant, phase, scene, fs, stored, loaded, ev>>

(***************************************************************************)
(* Bounds of the model.                                                    *)
(***************************************************************************)
MaxObjects == 2
MaxPrimitives == 2
MaxOperations == 2
MaxScenePrimitives == 1
\* largest index a client passes to the *_index constructors
MaxArgIndex == 1
\* objects + primitives + operations of a scene built step by step, in the
\* evaluator's specification and in the codec's
MaxSceneSize == 3
MaxStoredSize == 2
\* fwrite calls that succeed before the disk fails, as drawn by store_to_file
MaxWriteBudget == 5
\* largest coordinate of a query point and of a plane drawn for SpecPlane
MaxCoord == 2
\* largest component of a scene scale drawn for SpecPlane
MaxScale == 3

(***************************************************************************)
(* Program constants.                                                      *)
(***************************************************************************)
SDFD_VERSION == 0
KindFloat1 == 0
KindPlane == 4
KindCircle == 5
OpMin == 0
OpMax == 1
OpNeg == 2

Variants == {"base", "scaled"}

RECURSIVE Pow2(_)
Pow2(n) == IF n = 0 THEN 1 ELSE 2 * Pow2(n - 1)


(***************************************************************************)
(* Object representation of scalars (sizeof / memcpy in serialize_value).  *)
(***************************************************************************)
U16Bytes(n) == << n % 256, (n \div 256) % 256 >>
BytesU16(b) == b[1] + 256 * b[2]
U32Bytes(n) ==
    << n % 256, (n \div 256) % 256, (n \div 65536) % 256, (n \div 16777216) % 256 >>
\* a vector size read from the file; sizes of 2^31 and more, which no
\* content of the model can fill, are read as 2^31 - 1
BytesU32(b) ==
    IF b[4] >= 128 THEN 2147483647
    ELSE b[1] + 256 * b[2] + 65536 * b[3] + 16777216 * b[4]

\* floor(log2(n)) for n >= 1
RECURSIVE Log2(_)
Log2(n) == IF n < 2 THEN 0 ELSE 1 + Log2(n \div 2)

\* The 4 bytes of the float whose value is the integer v (|v| < 2^24):
\* sign bit, biased exponent (8 bits), fraction (23 bits), little-endian.
F32Bytes(v) ==
    IF v = 0 THEN <<0, 0, 0, 0>>
    ELSE LET a == IF v < 0 THEN -v ELSE v
             s == IF v < 0 THEN 1 ELSE 0
             e == Log2(a)
             ex == 127 + e
             m == (a - Pow2(e)) * Pow2(23 - e)
         IN  << m % 256, (m \div 256) % 256,
                (m \div 65536) + 128 * (ex % 2), (ex \div 2) + 128 * s >>

\* The number a float's bytes stand for, when it is an integer of magnitude
\* below 2^24 (IsF32Int); the evaluator of the model is applied to such
\* floats only.
F32Exp(b) == (b[4] % 128) * 2 + (b[3] \div 128) - 127
F32Frac(b) == (b[3] % 128) * 65536 + b[2] * 256 + b[1]
IsF32Int(b) ==
    \/ b = <<0, 0, 0, 0>>
    \/ /\ F32Exp(b) >= 0
       /\ F32Exp(b) <= 23
       /\ (8388608 + F32Frac(b)) % Pow2(23 - F32Exp(b)) = 0
F32Value(b) ==
    IF b = <<0, 0, 0, 0>> THEN 0
    ELSE LET a == (8388608 + F32Frac(b)) \div Pow2(23 - F32Exp(b))
         IN  IF b[4] >= 128 THEN -a ELSE a

(***************************************************************************)
(* Data model (sdfd.hpp 16-136).                                           *)
(***************************************************************************)
\* ArgumentIndex::Kind
ArgObjectPrimitive == 0
ArgScenePrimitive == 1
ArgObjectOperationOf(v) == IF v = "base" THEN 2 ELSE 1
\* width of the `kind` bit-field: the packed word is kind + 2^width * value
ArgKindBits(v) == IF v = "base" THEN 2 ELSE 1

object_primitive_index(i) == [kind |-> ArgObjectPrimitive, value |-> i]
scene_primitive_index(i) == [kind |-> ArgScenePrimitive, value |-> i]
object_operation_index(v, i) == [kind |-> ArgObjectOperationOf(v), value |-> i]

\* ArgumentIndex args[2] = {}
DefaultArg == [kind |-> 0, value |-> 0]

\* Primitive: the kind tag and the bytes of the active union member
PrimitiveFloat1(x) == [kind |-> KindFloat1, data |-> F32Bytes(x)]
PrimitivePlane(nx, ny, off) ==
    [kind |-> KindPlane, data |-> F32Bytes(nx) \o F32Bytes(ny) \o F32Bytes(off)]
PrimitiveCircle(cx, cy, r) ==
    [kind |-> KindCircle, data |-> F32Bytes(cx) \o F32Bytes(cy) \o F32Bytes(r)]

\* Plane plane_from_point_and_normal(point, normal)
plane_from_point_and_normal(px, py, nx, ny) ==
    PrimitivePlane(nx, ny, px * nx + py * ny)

\* Operation{kind, {a0, a1}}; a missing second initializer is value-initialized
MakeOperation(k, a0, a1) == [kind |-> k, args |-> <<a0, a1>>]

\* value-initialized elements, as vector::resize creates them
NewPrimitive == [kind |-> 0, data |-> <<0, 0, 0, 0>>]
NewOperation == [kind |-> 0, args |-> <<DefaultArg, DefaultArg>>]
NewObject == [primitives |-> <<>>, operations |-> <<>>]
NewScene == [objects |-> <<>>, primitives |-> <<>>, scale |-> <<1, 1>>]

PrimitiveKinds == {KindFloat1, KindPlane, KindCircle}
OperationKinds == {OpMin, OpMax, OpNeg}

\* PayloadSize with sizeof(Vector2) for the circle: the radius is left out
PayloadSize_CircleCenterOnly(kind) ==
    CASE kind = KindFloat1 -> 4
      [] kind = KindPlane -> 12
      [] kind = KindCircle -> 8
      [] OTHER -> 0

\* sizeof of the union member serialize_primitive's switch selects
PayloadSize(kind) ==
    CASE kind = KindFloat1 -> 4
      [] kind = KindPlane -> 12
      [] kind = KindCircle -> 12
      [] OTHER -> 0

\* get_arity with the arity of a binary operation for every kind: a fixed
\* two argument words per operation record
get_arity_AlwaysTwo(kind) ==
    CASE kind = OpMin -> 2
      [] kind = OpMax -> 2
      [] kind = OpNeg -> 2
      [] OTHER -> 0

\* get_arity; an invalid kind trips the assert, and returns 0 under NDEBUG
get_arity(kind) ==
    CASE kind = OpMin -> 2
      [] kind = OpMax -> 2
      [] kind = OpNeg -> 1
      [] OTHER -> 0

(***************************************************************************)
(* The codec: serialize(reading, scene, path), one routine for both        *)
(* directions (sdfd.hpp 223-330).  A stream is the routine's local state:  *)
(*   reading  the direction flag                                           *)
(*   content  the bytes read_entire_file returned (reading)                *)
(*   cursor   bytes of content consumed so far (cursor - content.data())   *)
(*   out      the bytes fwrite has put into the file (writing)             *)
(*   budget   fwrite calls the disk still accepts (-1: no limit)           *)
(*   ndebug   whether the build defines NDEBUG (assert compiled out)       *)
(*   aborted  an assert has fired: the process is gone                     *)
(***************************************************************************)
Stream(reading, content, budget, ndebug) ==
    [reading |-> reading, content |-> content, cursor |-> 0, out |-> <<>>,
     budget |-> budget, ndebug |-> ndebug, aborted |-> FALSE]

\* what a step of the routine returns: whether it succeeded, the stream
\* after it, and the object it serialized as it is in memory afterwards
Done(st, v) == [ok |-> TRUE, st |-> st, v |-> v]
Fail(st, v) == [ok |-> FALSE, st |-> st, v |-> v]

\* `if (!step) return false;` and what follows it; a failure leaves `old`
Then(r, old, Rest(_)) == IF r.ok THEN Rest(r) ELSE Fail(r.st, old)

\* serialize_buffer without the `cursor + size > end` test: a read past the
\* end of the buffer is served zeros
serialize_buffer_Unchecked(st, data, size) ==
    IF st.reading
    THEN Done([st EXCEPT !.cursor = @ + size],
              [i \in 1..size |-> IF st.cursor + i <= Len(st.content)
                                 THEN st.content[st.cursor + i] ELSE 0])
    ELSE IF size = 0 \/ st.budget = 0
         THEN Fail(st, data)
         ELSE Done([st EXCEPT !.out = @ \o SubSeq(data, 1, size),
                              !.budget = IF @ > 0 THEN @ - 1 ELSE @],
                   data)

\* serialize_buffer(data, size): `data` is the memory at the pointer
serialize_buffer(st, data, size) ==
    IF st.reading
    THEN IF st.cursor + size > Len(st.content)
         THEN Fail(st, data)
         ELSE Done([st EXCEPT !.cursor = @ + size],
                   SubSeq(st.content, st.cursor + 1, st.cursor + size))
    ELSE \* fwrite(data, size, 1, file) returns the number of items written,
         \* which is 0 when size is 0
         IF size = 0 \/ st.budget = 0
         THEN Fail(st, data)
         ELSE Done([st EXCEPT !.out = @ \o SubSeq(data, 1, size),
                              !.budget = IF @ > 0 THEN @ - 1 ELSE @],
                   data)

\* object representation of an ArgumentIndex: the two bit-fields share one
\* 32-bit word, `kind` in the low bits
ArgBytes(v, a) ==
    LET kb == ArgKindBits(v)
        lo == Pow2(8 - kb)
    IN  << a.kind + Pow2(kb) * (a.value % lo), (a.value \div lo) % 256,
           (a.value \div (256 * lo)) % 256, (a.value \div (65536 * lo)) % 256 >>
BytesArg(v, b) ==
    LET kb == ArgKindBits(v)
        lo == Pow2(8 - kb)
    IN  [kind |-> b[1] % Pow2(kb),
         value |-> (b[1] \div Pow2(kb)) + lo * b[2] + 256 * lo * b[3]
                      + 65536 * lo * b[4]]

serialize_primitive(st, primitive) ==
    Then(serialize_buffer(st, U16Bytes(primitive.kind), 2), primitive,
         LAMBDA k :
            IF BytesU16(k.v) \notin PrimitiveKinds
            THEN \* the switch has no case for it: nothing more is read or written
                 Done(k.st, [kind |-> BytesU16(k.v), data |-> <<>>])
            ELSE Then(serialize_buffer(k.st, primitive.data, PayloadSize(BytesU16(k.v))),
                      primitive,
                      LAMBDA p : Done(p.st, [kind |-> BytesU16(k.v), data |-> p.v])))

\* operation.args after `arity` of its words were serialized as bytes `b`
ArgsFrom(v, operation, arity, b) ==
    [i \in 1..2 |-> IF i <= arity THEN BytesArg(v, SubSeq(b, 4 * i - 3, 4 * i))
                    ELSE operation.args[i]]

serialize_operation(st, v, operation) ==
    Then(serialize_buffer(st, U16Bytes(operation.kind), 2), operation,
         LAMBDA k :
            IF BytesU16(k.v) \notin OperationKinds /\ ~k.st.ndebug
            THEN \* assert(!"invalid Operation::Kind in get_arity")
                 Fail([k.st EXCEPT !.aborted = TRUE], operation)
            ELSE Then(serialize_buffer(k.st,
                          ArgBytes(v, operation.args[1]) \o ArgBytes(v, operation.args[2]),
                          4 * get_arity(BytesU16(k.v))),
                      operation,
                      LAMBDA a : Done(a.st,
                          [kind |-> BytesU16(k.v),
                           args |-> ArgsFrom(v, operation, get_arity(BytesU16(k.v)), a.v)])))

\* SERIALIZE_VECTOR: the u32 size, vector.resize(size), then each element.
\* Resized is the vector cut to a smaller size; elements past the old end
\* are created (value-initialized) as the loop reaches them.
\* Resized_Cleared is vector.clear() in its place: every element is created
\* anew.
Resized_Cleared(vec, size) == <<>>
Resized(vec, size) == IF size < Len(vec) THEN SubSeq(vec, 1, size) ELSE vec
Put(vec, i, x) == IF i <= Len(vec) THEN [vec EXCEPT ![i] = x] ELSE Append(vec, x)
At(vec, i, new) == IF i <= Len(vec) THEN vec[i] ELSE new

\* The loop `for (auto &element : vector)` over the elements lo..hi, stopping
\* at the first element that fails.  The range is walked as its lower half
\* followed by its upper half, which visits the elements in the same order
\* and keeps the evaluation shallow for the sizes a damaged file can hold.
Mid(lo, hi) == lo + (hi - lo) \div 2

\* The last element a loop over `size` elements can reach.  Reading an
\* element takes at least the two bytes of its kind (an object: the eight of
\* its two sizes), so when `size` exceeds the bytes left the loop fails no
\* later than element (bytes left) / 2 + 1 and never reaches a later one.
LoopEnd(st, size) ==
    IF st.reading /\ size > Len(st.content) - st.cursor
    THEN (Len(st.content) - st.cursor) \div 2 + 1
    ELSE size

RECURSIVE serialize_primitives(_, _, _, _)
primitives_rest(r, lo, hi) ==
    IF r.ok THEN serialize_primitives(r.st, r.v, lo, hi) ELSE r
serialize_primitives(st, vec, lo, hi) ==
    IF lo > hi THEN Done(st, vec)
    ELSE IF lo = hi
    THEN Then(serialize_primitive(st, At(vec, lo, NewPrimitive)), vec,
              LAMBDA r : Done(r.st, Put(vec, lo, r.v)))
    ELSE primitives_rest(serialize_primitives(st, vec, lo, Mid(lo, hi)),
                         Mid(lo, hi) + 1, hi)

RECURSIVE serialize_operations(_, _, _, _, _)
operations_rest(r, v, lo, hi) ==
    IF r.ok THEN serialize_operations(r.st, v, r.v, lo, hi) ELSE r
serialize_operations(st, v, vec, lo, hi) ==
    IF lo > hi THEN Done(st, vec)
    ELSE IF lo = hi
    THEN Then(serialize_operation(st, v, At(vec, lo, NewOperation)), vec,
              LAMBDA r : Done(r.st, Put(vec, lo, r.v)))
    ELSE operations_rest(serialize_operations(st, v, vec, lo, Mid(lo, hi)), v,
                         Mid(lo, hi) + 1, hi)

serialize_primitive_vector(st, vec) ==
    Then(serialize_buffer(st, U32Bytes(Len(vec)), 4), vec,
         LAMBDA s : serialize_primitives(s.st, Resized(vec, BytesU32(s.v)), 1,
                        LoopEnd(s.st, BytesU32(s.v))))

serialize_operation_vector(st, v, vec) ==
    Then(serialize_buffer(st, U32Bytes(Len(vec)), 4), vec,
         LAMBDA s : serialize_operations(s.st, v, Resized(vec, BytesU32(s.v)), 1,
                        LoopEnd(s.st, BytesU32(s.v))))

serialize_object(st, v, object) ==
    Then(serialize_primitive_vector(st, object.primitives), object,
         LAMBDA p :
            Then(serialize_operation_vector(p.st, v, object.operations),
                 [object EXCEPT !.primitives = p.v],
                 LAMBDA o : Done(o.st, [primitives |-> p.v, operations |-> o.v])))

RECURSIVE serialize_objects(_, _, _, _, _)
objects_rest(r, v, lo, hi) ==
    IF r.ok THEN serialize_objects(r.st, v, r.v, lo, hi) ELSE r
serialize_objects(st, v, vec, lo, hi) ==
    IF lo > hi THEN Done(st, vec)
    ELSE IF lo = hi
    THEN Then(serialize_object(st, v, At(vec, lo, NewObject)), vec,
              LAMBDA r : Done(r.st, Put(vec, lo, r.v)))
    ELSE objects_rest(serialize_objects(st, v, vec, lo, Mid(lo, hi)), v,
                      Mid(lo, hi) + 1, hi)

serialize_object_vector(st, v, vec) ==
    Then(serialize_buffer(st, U32Bytes(Len(vec)), 4), vec,
         LAMBDA s : serialize_objects(s.st, v, Resized(vec, BytesU32(s.v)), 1,
                        LoopEnd(s.st, BytesU32(s.v))))

HeaderId == <<115, 100, 102, 100>>   \* "sdfd"

\* the body of serialize() from the header on; `st` is the opened stream
serialize(st, v, sc) ==
    Then(serialize_buffer(st, HeaderId, 4), sc,
      LAMBDA h :
        IF h.v # HeaderId THEN Fail(h.st, sc)
        ELSE Then(serialize_buffer(h.st, U16Bytes(SDFD_VERSION), 2), sc,
          LAMBDA ver :
            IF BytesU16(ver.v) > SDFD_VERSION THEN Fail(ver.st, sc)
            ELSE Then(serialize_object_vector(ver.st, v, sc.objects), sc,
              LAMBDA o :
                Then(serialize_primitive_vector(o.st, sc.primitives),
                     [sc EXCEPT !.objects = o.v],
                     LAMBDA p : Done(p.st, [sc EXCEPT !.objects = o.v,
                                                      !.primitives = p.v])))))

\* defer(...) without the destructor: the deferred calls are never made
Defer_Dropped(calls, fn) == calls

\* defer(fn) (sdfd.hpp 160-174): ~Defer() runs fn when the scope that
\* declared it is left, by whichever return.  `calls` are the calls made
\* before the scope is left.
Defer(calls, fn) == calls \o fn

\* fclose(file); `file` is "FILE" for an open handle and "0" for a null one
fclose(file) == IF file = "0" THEN "fclose(0)" ELSE "fclose"

\* read_entire_file (sdfd.hpp 194-221): nothing when the file cannot be
\* opened (returned before the defer), when an fseek fails, or when fread of
\* `size` bytes as one item returns 0 (size 0)
read_entire_file(f) ==
    IF ~f.exists THEN [has |-> FALSE, content |-> <<>>, calls |-> <<>>]
    ELSE IF ~f.seekable
    THEN [has |-> FALSE, content |-> <<>>,
          calls |-> Defer(<<"fopen">>, <<fclose("FILE")>>)]
    ELSE IF Len(f.bytes) = 0
    THEN [has |-> FALSE, content |-> <<>>,
          calls |-> Defer(<<"fopen">>, <<fclose("FILE")>>)]
    ELSE [has |-> TRUE, content |-> f.bytes,
          calls |-> Defer(<<"fopen">>, <<fclose("FILE")>>)]

\* the deferred block of serialize: if (!reading) { fclose(file); }
CloseUnlessReading(reading, file) == IF ~reading THEN <<fclose(file)>> ELSE <<>>

\* the calls serialize(reading, scene, path) makes on FILE handles.  `open`
\* tells whether fopen(path, "wb") gives a handle and `r` is what the body
\* returned.  Both early returns come before the defer; abort() runs no
\* destructor.
serialize_calls(reading, f, open, r) ==
    IF reading
    THEN IF ~read_entire_file(f).has \/ r.st.aborted
         THEN read_entire_file(f).calls
         ELSE Defer(read_entire_file(f).calls, CloseUnlessReading(TRUE, "0"))
    ELSE IF ~open THEN <<>>
         ELSE IF r.st.aborted THEN <<"fopen">>
         ELSE Defer(<<"fopen">>, CloseUnlessReading(FALSE, "FILE"))

\* serialize(true, result.value(), path) on a fresh Scene
ReadScene(v, f, ndebug) ==
    LET c == read_entire_file(f)
    IN  IF ~c.has
        THEN Fail(Stream(TRUE, <<>>, -1, ndebug), NewScene)
        ELSE serialize(Stream(TRUE, c.content, -1, ndebug), v, NewScene)

\* serialize(false, const_cast<Scene&>(scene), path) once fopen succeeded
WriteScene(v, sc, budget, ndebug) ==
    serialize(Stream(FALSE, <<>>, budget, ndebug), v, sc)

\* the bytes a store_to_file that meets no disk failure puts in the file
FileImage(v, sc) == WriteScene(v, sc, -1, TRUE).st.out

\* load_from_file without `result.reset()`
load_from_file_NoReset(v, f, ndebug) ==
    [called |-> TRUE, has |-> TRUE, scene |-> ReadScene(v, f, ndebug).v,
     content |-> ReadScene(v, f, ndebug).st.content,
     cursor |-> ReadScene(v, f, ndebug).st.cursor]

\* load_from_file: the optional is reset when serialize fails.  `content`
\* and `cursor` record what the reading pass was given and how far it got.
load_from_file(v, f, ndebug) ==
    LET r == ReadScene(v, f, ndebug)
    IN  [called |-> TRUE, has |-> r.ok,
         scene |-> IF r.ok THEN r.v ELSE NewScene,
         content |-> r.st.content, cursor |-> r.st.cursor]

NotLoaded ==
    [called |-> FALSE, has |-> FALSE, scene |-> NewScene, content |-> <<>>,
     cursor |-> 0]

(***************************************************************************)
(* Numbers of the evaluator: <<"fin", n>> for the integer n, NaN, and the  *)
(* two infinities <<"inf", 1>> and <<"inf", -1>>.                          *)
(***************************************************************************)
Fin(n) == <<"fin", n>>
NaN == <<"nan", 0>>
Infinity == <<"inf", 1>>

\* operator< of float: false whenever an operand is NaN
Lt(a, b) ==
    /\ a[1] # "nan"
    /\ b[1] # "nan"
    /\ CASE a[1] = b[1] -> a[2] < b[2]
         [] a[1] = "inf" -> a[2] < 0
         [] OTHER -> b[2] > 0

\* std::min(a, b) is (b < a) ? b : a;  std::max(a, b) is (a < b) ? b : a
StdMin(a, b) == IF Lt(b, a) THEN b ELSE a
StdMax(a, b) == IF Lt(a, b) THEN b ELSE a
\* unary minus
Negate(a) == <<a[1], -a[2]>>

IsSquare(n) == \E r \in 0..n : r * r = n
\* sqrtf, on the perfect squares
Sqrtf(n) == CHOOSE r \in 0..n : r * r = n

\* the i-th float (1-based) of a primitive's payload
FloatAt(primitive, i) == F32Value(SubSeq(primitive.data, 4 * i - 3, 4 * i))

\* length(point - center) - radius: distance(Circle, p), and the circle case
\* of evaluate(Primitive, Vector2)
CircleDistance(cx, cy, r, point) ==
    Sqrtf((point[1] - cx) * (point[1] - cx) + (point[2] - cy) * (point[2] - cy)) - r

\* evaluate(Primitive const &, Vector2)  (sdfd.hpp 344-358)
EvaluatePrimitiveBase(primitive, point) ==
    CASE primitive.kind = KindFloat1 -> Fin(FloatAt(primitive, 1))
      [] primitive.kind = KindPlane ->
            Fin(FloatAt(primitive, 1) * point[1] + FloatAt(primitive, 2) * point[2]
                  - FloatAt(primitive, 3))
      [] primitive.kind = KindCircle ->
            Fin(CircleDistance(FloatAt(primitive, 1), FloatAt(primitive, 2),
                               FloatAt(primitive, 3), point))

\* the plane case of evaluate(Scene, Primitive, Vector2)  (part_001 444-455)
ScaledPlane(nx, ny, off, scale, point) ==
    LET ax == nx * off
        ay == ny * off
        bx == ax + (-ny)            \* b = a + perp(normal)
        by == ay + nx
        sax == ax * scale[1]        \* a *= scene.scale
        say == ay * scale[2]
        sbx == bx * scale[1]        \* b *= scene.scale
        sby == by * scale[2]
        normalx == -(say - sby)     \* perp(a - b)
        normaly == sax - sbx
        offset == sax * normalx + say * normaly
    IN  normalx * point[1] + normaly * point[2] - offset

\* evaluate(Scene const &, Primitive const &, Vector2)  (part_001 439-461).
\* A circle goes through distance(Ellipse), which falls back to the circle
\* formula when the two scaled radii are equal.
EvaluatePrimitiveScaled(scale, primitive, point) ==
    CASE primitive.kind = KindFloat1 -> Fin(FloatAt(primitive, 1))
      [] primitive.kind = KindPlane ->
            Fin(ScaledPlane(FloatAt(primitive, 1), FloatAt(primitive, 2),
                            FloatAt(primitive, 3), scale, point))
      [] primitive.kind = KindCircle ->
            Fin(CircleDistance(scale[1] * FloatAt(primitive, 1),
                               scale[2] * FloatAt(primitive, 2),
                               scale[2] * FloatAt(primitive, 3), point))

EvaluatePrimitive(v, sc, primitive, point) ==
    IF v = "base" THEN EvaluatePrimitiveBase(primitive, point)
    ELSE EvaluatePrimitiveScaled(sc.scale, primitive, point)

\* The primitives the model evaluates: a valid kind, integer-valued floats,
\* a circle only where its square root is exact and, in the scaled variant,
\* where its radii stay equal (the closed-form ellipse solve is not modelled).
Evaluable(v, sc, primitive, point) ==
    /\ primitive.kind \in PrimitiveKinds
    /\ \A i \in 1..(Len(primitive.data) \div 4) :
          IsF32Int(SubSeq(primitive.data, 4 * i - 3, 4 * i))
    /\ primitive.kind = KindCircle =>
          LET s == IF v = "base" THEN <<1, 1>> ELSE sc.scale
              dx == point[1] - s[1] * FloatAt(primitive, 1)
              dy == point[2] - s[2] * FloatAt(primitive, 2)
          IN  /\ s[1] * FloatAt(primitive, 3) = s[2] * FloatAt(primitive, 3)
              /\ IsSquare(dx * dx + dy * dy)

AllEvaluable(v, sc, object, point) ==
    /\ \A i \in 1..Len(object.primitives) : Evaluable(v, sc, object.primitives[i], point)
    /\ \A i \in 1..Len(sc.primitives) : Evaluable(v, sc, sc.primitives[i], point)

(***************************************************************************)
(* evaluate(Scene, Object, Vector2)  (sdfd.hpp 360-412, part_001 464-517), *)
(* one action per pass of its loop.  ev holds the call's locals:           *)
(*   pc                 "idle", "loop", "done" or "crashed"                *)
(*   object             index of the object in scene.objects (1-based)     *)
(*   operation_index    operations processed so far                        *)
(*   operation_results  the results buffer                                 *)
(*   result             the value returned                                 *)
(* and, for the properties, what the call did:                             *)
(*   order   the indexes of operation_results written, in order            *)
(*   stale   an object_operation argument read a slot not yet written      *)
(*   ub      a vector was indexed out of bounds (undefined behaviour)      *)
(***************************************************************************)
EvIdle ==
    [pc |-> "idle", object |-> 0, point |-> <<0, 0>>, operation_index |-> 0,
     operation_results |-> <<>>, order |-> <<>>, stale |-> FALSE, ub |-> FALSE,
     result |-> NaN]

EvObject == scene.objects[ev.object]

\* what an out-of-bounds read may return
GarbageValues == {NaN, Fin(0), Fin(7)}

\* evaluate_argument reading operation_results[index.value + 1]
evaluate_argument_OffByOne(v, sc, object, e, index, g) ==
    IF v = "base" /\ index.kind = ArgScenePrimitive
    THEN IF index.value < Len(sc.primitives)
         THEN [val |-> EvaluatePrimitive(v, sc, sc.primitives[index.value + 1], e.point),
               ub |-> FALSE, stale |-> FALSE]
         ELSE [val |-> g, ub |-> TRUE, stale |-> FALSE]
    ELSE IF index.kind = ArgObjectOperationOf(v)
    THEN IF index.value + 1 < Len(e.operation_results)
         THEN [val |-> e.operation_results[index.value + 2], ub |-> FALSE,
               stale |-> index.value + 1 >= e.operation_index]
         ELSE [val |-> g, ub |-> TRUE, stale |-> FALSE]
    ELSE IF index.value < Len(object.primitives)
         THEN [val |-> EvaluatePrimitive(v, sc, object.primitives[index.value + 1], e.point),
               ub |-> FALSE, stale |-> FALSE]
         ELSE [val |-> g, ub |-> TRUE, stale |-> FALSE]

\* evaluate_argument(index); g is what the read returns if it is out of bounds
evaluate_argument(v, sc, object, e, index, g) ==
    IF v = "base" /\ index.kind = ArgScenePrimitive
    THEN IF index.value < Len(sc.primitives)
         THEN [val |-> EvaluatePrimitive(v, sc, sc.primitives[index.value + 1], e.point),
               ub |-> FALSE, stale |-> FALSE]
         ELSE [val |-> g, ub |-> TRUE, stale |-> FALSE]
    ELSE IF index.kind = ArgObjectOperationOf(v)
    THEN IF index.value < Len(e.operation_results)
         THEN [val |-> e.operation_results[index.value + 1], ub |-> FALSE,
               stale |-> index.value >= e.operation_index]
         ELSE [val |-> g, ub |-> TRUE, stale |-> FALSE]
    ELSE \* default: case ArgumentIndex::Kind::object_primitive:
         IF index.value < Len(object.primitives)
         THEN [val |-> EvaluatePrimitive(v, sc, object.primitives[index.value + 1], e.point),
               ub |-> FALSE, stale |-> FALSE]
         ELSE [val |-> g, ub |-> TRUE, stale |-> FALSE]

evaluate_min(x, y) == StdMin(x, y)
\* evaluate_max passing args[0] twice
evaluate_max_FirstTwice(x, y) == StdMax(x, x)
evaluate_max(x, y) == StdMax(x, y)
evaluate_neg(x) == Negate(x)

\* the arguments an operation of this kind evaluates
ArgsUsed(operation) == IF operation.kind = OpNeg THEN {1} ELSE {1, 2}

\* one pass of the loop: operation_results[operation_index] = evaluate_<kind>()
StepResult(v, sc, object, e, g1, g2) ==
    LET operation == object.operations[e.operation_index + 1]
        x == evaluate_argument(v, sc, object, e, operation.args[1], g1)
        y == evaluate_argument(v, sc, object, e, operation.args[2], g2)
        two == operation.kind # OpNeg
        val == CASE operation.kind = OpMin -> evaluate_min(x.val, y.val)
                 [] operation.kind = OpMax -> evaluate_max(x.val, y.val)
                 [] operation.kind = OpNeg -> evaluate_neg(x.val)
    IN  [e EXCEPT !.operation_results[e.operation_index + 1] = val,
                  !.order = Append(@, e.operation_index),
                  !.operation_index = @ + 1,
                  !.stale = @ \/ x.stale \/ (two /\ y.stale),
                  !.ub = @ \/ x.ub \/ (two /\ y.ub)]

\* BeginResult returning quiet_NaN() for an object without operations
BeginResult_NaN(v, sc, o, point) ==
    IF Len(sc.objects[o].operations) = 0
    THEN [EvIdle EXCEPT !.object = o, !.point = point, !.pc = "done", !.result = NaN]
    ELSE [EvIdle EXCEPT !.object = o, !.point = point, !.pc = "loop",
                        !.operation_results =
                            [i \in 1..Len(sc.objects[o].operations) |-> NaN]]

\* the call up to its loop: the early return for an object without
\* operations, or the results buffer filled with quiet NaNs
BeginResult(v, sc, o, point) ==
    LET object == sc.objects[o]
        e == [EvIdle EXCEPT !.object = o, !.point = point]
    IN  IF Len(object.operations) = 0
        THEN IF v = "base" \/ Len(object.primitives) = 0
             THEN [e EXCEPT !.pc = "done", !.result = Infinity]
             ELSE [e EXCEPT !.pc = "done",
                            !.result = EvaluatePrimitive(v, sc,
                                 object.primitives[Len(object.primitives)], point)]
        ELSE [e EXCEPT !.pc = "loop",
                       !.operation_results = [i \in 1..Len(object.operations) |-> NaN]]

QueryPoints == { <<32, 32>>, <<44, 48>> }

EvalBegin ==
    /\ phase \in {"build", "loaded"} /\ ev.pc = "idle"
    /\ \E o \in 1..Len(scene.objects), point \in QueryPoints :
          /\ AllEvaluable(variant, scene, scene.objects[o], point)
          /\ \A i \in 1..Len(scene.objects[o].operations) :
                scene.objects[o].operations[i].kind \in OperationKinds
          /\ ev' = BeginResult(variant, scene, o, point)
    /\ UNCHANGED <<variant, phase, scene, fs, stored, loaded>>

EvalStep ==
    /\ ev.pc = "loop"
    /\ ev.operation_index < Len(EvObject.operations)
    /\ \E g1 \in GarbageValues, g2 \in GarbageValues :
          ev' = StepResult(variant, scene, EvObject, ev, g1, g2)
    /\ UNCHANGED <<variant, phase, scene, fs, stored, loaded>>

\* an out-of-bounds read may also end the process (an access violation)
EvalCrash ==
    /\ ev.pc = "loop"
    /\ ev.operation_index < Len(EvObject.operations)
    /\ StepResult(variant, scene, EvObject, ev, NaN, NaN).ub # ev.ub
    /\ ev' = [ev EXCEPT !.pc = "crashed", !.ub = TRUE]
    /\ UNCHANGED <<variant, phase, scene, fs, stored, loaded>>

\* return operation_results.back()
EvalReturn ==
    /\ ev.pc = "loop"
    /\ ev.operation_index = Len(EvObject.operations)
    /\ ev' = [ev EXCEPT !.pc = "done",
                        !.result = ev.operation_results[Len(ev.operation_results)]]
    /\ UNCHANGED <<variant, phase, scene, fs, stored, loaded>>

\* the caller takes the value; the program goes on
EvalEnd ==
    /\ ev.pc = "done"
    /\ ev' = EvIdle
    /\ UNCHANGED <<variant, phase, scene, fs, stored, loaded>>

(***************************************************************************)
(* The client program: it builds a scene with push_back, as example/main   *)
(* does on the last object, then stores it or loads one.                   *)
(***************************************************************************)
PrimitiveChoices ==
    { PrimitiveFloat1(1), PrimitivePlane(0, -1, -2), PrimitiveCircle(32, 32, 12) }

ArgChoices(v) ==
    { object_primitive_index(i) : i \in 0..MaxArgIndex }
       \cup { object_operation_index(v, i) : i \in 0..MaxArgIndex }
       \cup (IF v = "base" THEN { scene_primitive_index(i) : i \in 0..MaxArgIndex }
             ELSE {})

ScaleChoices == { <<1, 1>>, <<3, 1>> }

RECURSIVE ObjectsSize(_)
ObjectsSize(objs) ==
    IF objs = <<>> THEN 0
    ELSE 1 + Len(Head(objs).primitives) + Len(Head(objs).operations)
           + ObjectsSize(Tail(objs))
SceneSize(sc) == ObjectsSize(sc.objects) + Len(sc.primitives)

\* the object example/main builds: a square with a circle carved out
CarvedSquare ==
    [primitives |-> << plane_from_point_and_normal(16, 16, -1, 0),
                       plane_from_point_and_normal(16, 16, 0, -1),
                       plane_from_point_and_normal(48, 48, 1, 0),
                       plane_from_point_and_normal(48, 48, 0, 1),
                       PrimitiveCircle(32, 32, 12) >>,
     operations |-> << MakeOperation(OpMax, object_primitive_index(0),
                                     object_primitive_index(1)),
                       MakeOperation(OpMax, object_primitive_index(2),
                                     object_primitive_index(3)),
                       MakeOperation(OpMax, object_operation_index("base", 0),
                                     object_operation_index("base", 1)),
                       MakeOperation(OpNeg, object_primitive_index(4), DefaultArg),
                       MakeOperation(OpMax, object_operation_index("base", 2),
                                     object_operation_index("base", 3)) >>]

\* an object over the primitives a and b with the given operations
ObjectOf(a, b, ops) == [primitives |-> <<a, b>>, operations |-> ops]

\* the objects min(a, b), max(a, b), neg(a), max(neg a, neg b), neg(min(a, b))
CsgObjects(v, a, b) ==
    << ObjectOf(a, b, << MakeOperation(OpMin, object_primitive_index(0),
                                       object_primitive_index(1)) >>),
       ObjectOf(a, b, << MakeOperation(OpMax, object_primitive_index(0),
                                       object_primitive_index(1)) >>),
       ObjectOf(a, b, << MakeOperation(OpNeg, object_primitive_index(0), DefaultArg) >>),
       ObjectOf(a, b, << MakeOperation(OpNeg, object_primitive_index(0), DefaultArg),
                         MakeOperation(OpNeg, object_primitive_index(1), DefaultArg),
                         MakeOperation(OpMax, object_operation_index(v, 0),
                                       object_operation_index(v, 1)) >>),
       ObjectOf(a, b, << MakeOperation(OpMin, object_primitive_index(0),
                                       object_primitive_index(1)),
                         MakeOperation(OpNeg, object_operation_index(v, 0),
                                       DefaultArg) >>) >>

\* the scenes a client starts from: the empty one, the example's, and each
\* of the CSG objects over every pair of primitives
InputScenes(v) ==
    { NewScene }
       \cup { [NewScene EXCEPT !.objects =
                 << [CarvedSquare EXCEPT !.operations =
                       [i \in 1..5 |->
                          [CarvedSquare.operations[i] EXCEPT !.args =
                             [j \in 1..2 |->
                                IF @[j].kind = ArgObjectOperationOf("base")
                                THEN object_operation_index(v, @[j].value)
                                ELSE @[j]]]]] >>] }
       \cup { [NewScene EXCEPT !.objects = <<CsgObjects(v, a, b)[k]>>] :
                 a \in PrimitiveChoices, b \in PrimitiveChoices, k \in 1..5 }

NoFile ==
    [exists |-> FALSE, bytes |-> <<>>, damaged |-> FALSE, seekable |-> TRUE,
     calls |-> <<>>]

CanBuild(cap) == phase = "build" /\ ev.pc = "idle" /\ SceneSize(scene) < cap

\* scene.objects.emplace_back()
AddObject(cap) ==
    /\ CanBuild(cap)
    /\ Len(scene.objects) < MaxObjects
    /\ scene' = [scene EXCEPT !.objects = Append(@, NewObject)]
    /\ UNCHANGED <<variant, phase, fs, stored, loaded, ev>>

\* object->primitives.push_back(p)
AddPrimitive(cap) ==
    /\ CanBuild(cap)
    /\ scene.objects # <<>>
    /\ Len(scene.objects[Len(scene.objects)].primitives) < MaxPrimitives
    /\ \E p \in PrimitiveChoices :
          scene' = [scene EXCEPT !.objects[Len(scene.objects)].primitives = Append(@, p)]
    /\ UNCHANGED <<variant, phase, fs, stored, loaded, ev>>

\* scene.primitives.push_back(p)
AddScenePrimitive(cap) ==
    /\ CanBuild(cap)
    /\ Len(scene.primitives) < MaxScenePrimitives
    /\ \E p \in PrimitiveChoices :
          scene' = [scene EXCEPT !.primitives = Append(@, p)]
    /\ UNCHANGED <<variant, phase, fs, stored, loaded, ev>>

\* object->operations.push_back({kind, {a0, a1}})
AddOperation(cap) ==
    /\ CanBuild(cap)
    /\ scene.objects # <<>>
    /\ Len(scene.objects[Len(scene.objects)].operations) < MaxOperations
    /\ \E k \in OperationKinds, a0 \in ArgChoices(variant), a1 \in ArgChoices(variant) :
          scene' = [scene EXCEPT !.objects[Len(scene.objects)].operations =
                                     Append(@, MakeOperation(k, a0, a1))]
    /\ UNCHANGED <<variant, phase, fs, stored, loaded, ev>>

\* scene.scale = s  (the variant with Scene::scale)
SetScale ==
    /\ phase = "build" /\ ev.pc = "idle"
    /\ variant = "scaled"
    /\ scene.scale = <<1, 1>>
    /\ \E s \in ScaleChoices \ {<<1, 1>>} : scene' = [scene EXCEPT !.scale = s]
    /\ UNCHANGED <<variant, phase, fs, stored, loaded, ev>>

\* store_to_file(scene, path).  The environment decides whether fopen
\* succeeds and how many fwrite calls the disk accepts.
StoreToFile ==
    /\ phase = "build" /\ ev.pc = "idle"
    /\ \E open \in BOOLEAN, budget \in -1..MaxWriteBudget, ndebug \in BOOLEAN :
          LET r == WriteScene(variant, scene, budget, ndebug)
          IN  IF ~open
              THEN /\ stored' = "false"
                   /\ phase' = "io"
                   /\ fs' = [fs EXCEPT !.calls = serialize_calls(FALSE, fs, FALSE, r)]
                   /\ UNCHANGED scene
              ELSE /\ fs' = [exists |-> TRUE, bytes |-> r.st.out, damaged |-> FALSE,
                             seekable |-> TRUE,
                             calls |-> serialize_calls(FALSE, fs, TRUE, r)]
                   /\ scene' = r.v
                   /\ stored' = IF r.ok THEN "true" ELSE "false"
                   /\ phase' = IF r.st.aborted THEN "aborted" ELSE "io"
    /\ UNCHANGED <<variant, loaded, ev>>

\* the environment cuts the stored file short
Truncate ==
    /\ phase = "io" /\ fs.exists /\ ~fs.damaged /\ ~loaded.called
    /\ \E k \in 0..(Len(fs.bytes) - 1) :
          fs' = [fs EXCEPT !.bytes = SubSeq(@, 1, k), !.damaged = TRUE]
    /\ UNCHANGED <<variant, phase, scene, stored, loaded, ev>>

\* the environment overwrites one byte of the stored file
CorruptBytes == {0, 1, 7}
Corrupt ==
    /\ phase = "io" /\ fs.exists /\ ~fs.damaged /\ ~loaded.called
    /\ \E i \in 1..Len(fs.bytes), b \in CorruptBytes :
          /\ fs.bytes[i] # b
          /\ fs' = [fs EXCEPT !.bytes[i] = b, !.damaged = TRUE]
    /\ UNCHANGED <<variant, phase, scene, stored, loaded, ev>>

\* the environment puts something fseek fails on (a pipe) at the path
Unseekable ==
    /\ phase = "io" /\ fs.exists /\ ~fs.damaged /\ ~loaded.called
    /\ fs' = [fs EXCEPT !.seekable = FALSE, !.damaged = TRUE]
    /\ UNCHANGED <<variant, phase, scene, stored, loaded, ev>>

\* auto result = load_from_file(path)
LoadFromFile ==
    /\ phase \in {"build", "io"} /\ ev.pc = "idle"
    /\ ~loaded.called
    /\ \E ndebug \in BOOLEAN :
          LET r == ReadScene(variant, fs, ndebug)
          IN  /\ fs' = [fs EXCEPT !.calls = serialize_calls(TRUE, fs, TRUE, r)]
              /\ IF r.st.aborted
                 THEN phase' = "aborted" /\ UNCHANGED loaded
                 ELSE phase' = "io" /\ loaded' = load_from_file(variant, fs, ndebug)
    /\ UNCHANGED <<variant, scene, stored, ev>>

\* scene = sdfd::load_from_file(argv[1]).value();
\* object = &scene.objects.at(0);
\* value() and at(0) throw, and end the program, when there is nothing
AdoptLoaded ==
    /\ phase = "io" /\ ev.pc = "idle"
    /\ loaded.called
    /\ IF loaded.has /\ loaded.scene.objects # <<>>
       THEN scene' = loaded.scene /\ phase' = "loaded"
       ELSE phase' = "aborted" /\ UNCHANGED scene
    /\ UNCHANGED <<variant, fs, stored, loaded, ev>>

Init ==
    /\ variant \in Variants
    /\ phase = "build"
    /\ scene \in InputScenes(variant)
    /\ fs = NoFile
    /\ stored = "none"
    /\ loaded = NotLoaded
    /\ ev = EvIdle

Next ==
    \/ AddObject(MaxStoredSize)
    \/ AddPrimitive(MaxStoredSize)
    \/ AddScenePrimitive(MaxStoredSize)
    \/ AddOperation(MaxStoredSize)
    \/ StoreToFile
    \/ Truncate
    \/ Corrupt
    \/ Unseekable
    \/ LoadFromFile

Spec == Init /\ [][Next]_vars

(***************************************************************************)
(* The evaluator's specification: scenes are built and evaluated.          *)
(***************************************************************************)
NextEval ==
    \/ AddObject(MaxSceneSize)
    \/ AddPrimitive(MaxSceneSize)
    \/ AddScenePrimitive(MaxSceneSize)
    \/ AddOperation(MaxSceneSize)
    \/ SetScale
    \/ EvalBegin
    \/ EvalStep
    \/ EvalCrash
    \/ EvalReturn
    \/ EvalEnd

SpecEval == Init /\ [][NextEval]_vars

(***************************************************************************)
(* The operations that take the scene by const reference: scenes are       *)
(* built, evaluated and stored.                                            *)
(***************************************************************************)
NextConst ==
    \/ AddObject(MaxStoredSize)
    \/ AddPrimitive(MaxStoredSize)
    \/ AddScenePrimitive(MaxStoredSize)
    \/ AddOperation(MaxStoredSize)
    \/ SetScale
    \/ StoreToFile
    \/ EvalBegin
    \/ EvalStep
    \/ EvalCrash
    \/ EvalReturn
    \/ EvalEnd

SpecConst == Init /\ [][NextConst]_vars

(***************************************************************************)
(* A stored scene, as written or with a byte overwritten, is loaded and    *)
(* evaluated, as example/main does with the file named on its command      *)
(* line.                                                                   *)
(***************************************************************************)
NextLoaded ==
    \/ AddObject(MaxStoredSize)
    \/ AddPrimitive(MaxStoredSize)
    \/ AddScenePrimitive(MaxStoredSize)
    \/ AddOperation(MaxStoredSize)
    \/ StoreToFile
    \/ Corrupt
    \/ LoadFromFile
    \/ AdoptLoaded
    \/ EvalBegin
    \/ EvalStep
    \/ EvalCrash
    \/ EvalReturn
    \/ EvalEnd

SpecLoaded == Init /\ [][NextLoaded]_vars

(***************************************************************************)
(* Evaluation of a single plane: the plane, the scale and the point are    *)
(* drawn from small integers and evaluate(Primitive, Vector2), or          *)
(* evaluate(Scene, Primitive, Vector2) in the variant with a scale, is     *)
(* applied to them.                                                        *)
(***************************************************************************)
Coords == (0 - MaxCoord)..MaxCoord

InitPlane ==
    /\ variant \in Variants
    /\ phase = "primitive"
    /\ \E nx \in Coords, ny \in Coords, off \in Coords, sx \in 1..MaxScale, sy \in 1..MaxScale :
          /\ variant = "base" => sx = 1 /\ sy = 1
          /\ scene = [objects |-> << [primitives |-> <<PrimitivePlane(nx, ny, off)>>,
                                      operations |-> <<>>] >>,
                      primitives |-> <<>>,
                      scale |-> <<sx, sy>>]
    /\ fs = NoFile
    /\ stored = "none"
    /\ loaded = NotLoaded
    /\ ev = EvIdle

\* float d = evaluate(scene, object.primitives[0], point)
EvaluatePlane ==
    /\ phase = "primitive" /\ ev.pc = "idle"
    /\ \E px \in Coords, py \in Coords :
          ev' = [EvIdle EXCEPT !.pc = "done", !.object = 1, !.point = <<px, py>>,
                               !.result = EvaluatePrimitive(variant, scene,
                                              scene.objects[1].primitives[1], <<px, py>>)]
    /\ UNCHANGED <<variant, phase, scene, fs, stored, loaded>>

NextPlane ==
    \/ EvaluatePlane
    \/ EvalEnd

SpecPlane == InitPlane /\ [][NextPlane]_vars

\* the plane of SpecPlane
ThePlane == scene.objects[1].primitives[1]
PlaneEvaluated == phase = "primitive" /\ ev.pc = "done"

\* C9: in the variant with Scene::scale, a plane evaluated under the default
\* scale (1, 1) gives dot(normal, p) - offset, the value the unscaled
\* variant's evaluate(primitive, p) gives, for every plane and point.
C9_IdentityScale ==
    (PlaneEvaluated /\ variant = "scaled" /\ scene.scale = <<1, 1>>) =>
        ev.result = EvaluatePrimitiveBase(ThePlane, ev.point)

\* C10: for a plane with a unit normal n and a scale (sx, sy), the value at
\* p is the signed distance from p to the scaled boundary line.  A unit
\* normal with integer components is an axis, and the line n.q = offset is
\* carried by the scale to n.q = (sx nx^2 + sy ny^2) offset.
C10_ScaledPlaneDistance ==
    (PlaneEvaluated /\ variant = "scaled"
       /\ FloatAt(ThePlane, 1) * FloatAt(ThePlane, 1)
            + FloatAt(ThePlane, 2) * FloatAt(ThePlane, 2) = 1) =>
        ev.result = Fin(FloatAt(ThePlane, 1) * ev.point[1]
                          + FloatAt(ThePlane, 2) * ev.point[2]
                          - (scene.scale[1] * FloatAt(ThePlane, 1) * FloatAt(ThePlane, 1)
                               + scene.scale[2] * FloatAt(ThePlane, 2) * FloatAt(ThePlane, 2))
                            * FloatAt(ThePlane, 3))

(***************************************************************************)
(* Properties of the codec, checked under Spec.                            *)
(***************************************************************************)
\* the file holds what a successful store_to_file wrote and was loaded as is
IntactLoad == stored = "true" /\ ~fs.damaged /\ loaded.called

\* kind and the serialized arguments agree; an argument slot the kind does
\* not use holds the default ArgumentIndex in the loaded operation
SameOperation(a, b) ==
    /\ a.kind = b.kind
    /\ \A j \in 1..2 : IF j <= get_arity(a.kind) THEN b.args[j] = a.args[j]
                        ELSE b.args[j] = DefaultArg

SameObject(a, b) ==
    /\ b.primitives = a.primitives
    /\ Len(b.operations) = Len(a.operations)
    /\ \A i \in 1..Len(a.operations) : SameOperation(a.operations[i], b.operations[i])

\* C1 as stated: after a successful store_to_file, load_from_file of the
\* written file returns a scene equal to the stored one field by field:
\* the same objects (primitives, operations with kind and both arguments)
\* and the same scene-shared primitives.
C1_RoundTripExact ==
    IntactLoad =>
        /\ loaded.has
        /\ loaded.scene.objects = scene.objects
        /\ loaded.scene.primitives = scene.primitives

\* C1 amended: the loaded scene has the same objects and shared primitives,
\* every primitive with the same kind and payload bytes, every operation
\* with the same kind and the same first arity(kind) arguments; the argument
\* slot a neg operation does not use comes back as the default index.
C1_RoundTripUpToArity ==
    IntactLoad =>
        /\ loaded.has
        /\ Len(loaded.scene.objects) = Len(scene.objects)
        /\ \A i \in 1..Len(scene.objects) :
              SameObject(scene.objects[i], loaded.scene.objects[i])
        /\ loaded.scene.primitives = scene.primitives

\* a stored and reloaded scene with a neg operation whose unused slot was set
C1_Witness ==
    /\ IntactLoad /\ loaded.has
    /\ \E i \in 1..Len(scene.objects) : \E j \in 1..Len(scene.objects[i].operations) :
          /\ scene.objects[i].operations[j].kind = OpNeg
          /\ scene.objects[i].operations[j].args[2] # DefaultArg
          /\ scene.objects[i].operations[j].args[1] # DefaultArg

\* the loaded content is the first k bytes of the stored scene's file, k < n
TruncatedLoad ==
    /\ stored = "true" /\ loaded.called
    /\ Len(fs.bytes) < Len(FileImage(variant, scene))
    /\ fs.bytes = SubSeq(FileImage(variant, scene), 1, Len(fs.bytes))

\* C2: load_from_file on the first k bytes (0 <= k < n) of the file that
\* store_to_file wrote for a scene returns an empty optional.
C2_TruncatedFails == TruncatedLoad => ~loaded.has

\* a file cut inside its last record was loaded
C2_Witness ==
    /\ TruncatedLoad
    /\ Len(fs.bytes) + 1 = Len(FileImage(variant, scene))
    /\ scene.objects # <<>>
    /\ ~loaded.has

BadMagic(c) == Len(c) >= 4 /\ SubSeq(c, 1, 4) # HeaderId
BadVersion(c) ==
    /\ Len(c) >= 6
    /\ SubSeq(c, 1, 4) = HeaderId
    /\ c[5] + 256 * c[6] > SDFD_VERSION
\* too short to hold the header, the version and the two vector sizes
TooShort(c) == Len(c) < 4 + 2 + 4 + 4

OperationKindsValid(sc) ==
    \A i \in 1..Len(sc.objects) : \A j \in 1..Len(sc.objects[i].operations) :
        sc.objects[i].operations[j].kind \in OperationKinds

\* C3: load_from_file returns an empty optional, and no partly read scene,
\* when the magic is not "sdfd", the version exceeds SDFD_VERSION or the
\* buffer ends before a field is complete; a scene it does return was read
\* in full: every field came from the buffer, so the bytes consumed are
\* exactly the serialized form of the scene returned.
C3_FailureSignal ==
    loaded.called =>
        /\ (BadMagic(loaded.content) \/ BadVersion(loaded.content)
               \/ TooShort(loaded.content))
              => ~loaded.has
        /\ ~loaded.has => loaded.scene = NewScene
        /\ loaded.has =>
              /\ loaded.cursor <= Len(loaded.content)
              /\ ~BadMagic(loaded.content) /\ ~BadVersion(loaded.content)
              /\ OperationKindsValid(loaded.scene) =>
                    FileImage(variant, loaded.scene)
                       = SubSeq(loaded.content, 1, loaded.cursor)

\* a file whose version field was overwritten with a larger version was loaded
C3_Witness ==
    /\ loaded.called /\ fs.damaged
    /\ BadVersion(loaded.content)
    /\ Len(loaded.content) > 4 + 2 + 4 + 4
    /\ ~loaded.has

(***************************************************************************)
(* The byte layout of a scene file, written out record by record.         *)
(***************************************************************************)
\* a primitive record: the u16 kind tag, then 4 bytes for a constant (kind
\* 0) and 12 bytes for a plane or a circle
LayoutPrimitive(p) ==
    U16Bytes(p.kind) \o (IF p.kind = 0 THEN SubSeq(p.data, 1, 4)
                         ELSE SubSeq(p.data, 1, 12))

\* an operation record: the u16 kind tag, then two argument words for min
\* (0) and max (1) and one for neg (2)
LayoutOperation(v, o) ==
    U16Bytes(o.kind) \o ArgBytes(v, o.args[1])
        \o (IF o.kind = 2 THEN <<>> ELSE ArgBytes(v, o.args[2]))

RECURSIVE LayoutPrimitives(_)
LayoutPrimitives(ps) ==
    IF ps = <<>> THEN <<>>
    ELSE LayoutPrimitive(Head(ps)) \o LayoutPrimitives(Tail(ps))

RECURSIVE LayoutOperations(_, _)
LayoutOperations(v, os) ==
    IF os = <<>> THEN <<>>
    ELSE LayoutOperation(v, Head(os)) \o LayoutOperations(v, Tail(os))

RECURSIVE LayoutObjects(_, _)
LayoutObjects(v, objs) ==
    IF objs = <<>> THEN <<>>
    ELSE U32Bytes(Len(Head(objs).primitives))
            \o LayoutPrimitives(Head(objs).primitives)
            \o U32Bytes(Len(Head(objs).operations))
            \o LayoutOperations(v, Head(objs).operations)
            \o LayoutObjects(v, Tail(objs))

\* "sdfd", the version, the objects, the shared primitives
LayoutScene(v, sc) ==
    <<115, 100, 102, 100>> \o U16Bytes(SDFD_VERSION)
        \o U32Bytes(Len(sc.objects)) \o LayoutObjects(v, sc.objects)
        \o U32Bytes(Len(sc.primitives)) \o LayoutPrimitives(sc.primitives)

\* store_to_file opened the file, and nothing touched the file since
StoredFile == stored # "none" /\ fs.exists /\ ~fs.damaged

\* C11: the bytes store_to_file writes are, in order and without padding,
\* "sdfd", the u16 version SDFD_VERSION, the u32 object count, per object the
\* u32 primitive count with the primitive records and the u32 operation
\* count with the operation records, then the u32 shared-primitive count
\* with its primitive records; a primitive record is the u16 kind and 4
\* bytes (constant) or 12 bytes (plane, circle), an operation record the u16
\* kind and arity(kind) 4-byte argument words.  A store that succeeds writes
\* all of them, a store that fails at a write the ones before that write.
C11_WireLayout ==
    StoredFile =>
        /\ stored = "true" => fs.bytes = LayoutScene(variant, scene)
        /\ stored = "false" =>
              /\ Len(fs.bytes) < Len(LayoutScene(variant, scene))
              /\ fs.bytes = SubSeq(LayoutScene(variant, scene), 1, Len(fs.bytes))

\* a stored object with a constant, a plane or circle, a binary operation
\* and a neg
C11_Witness ==
    /\ StoredFile /\ stored = "true"
    /\ \E i \in 1..Len(scene.objects) :
          /\ \E j \in 1..Len(scene.objects[i].primitives) :
                 scene.objects[i].primitives[j].kind = KindFloat1
          /\ \E j \in 1..Len(scene.objects[i].primitives) :
                 scene.objects[i].primitives[j].kind # KindFloat1
          /\ \E j \in 1..Len(scene.objects[i].operations) :
                 scene.objects[i].operations[j].kind = OpNeg
          /\ \E j \in 1..Len(scene.objects[i].operations) :
                 scene.objects[i].operations[j].kind # OpNeg

(***************************************************************************)
(* File handles.                                                           *)
(***************************************************************************)
\* a library call was made and has returned
CallReturned == (stored # "none" \/ loaded.called) /\ phase # "aborted"

\* C12: on every exit path of load_from_file and store_to_file (open
\* failure, seek or read failure, bad magic, unsupported version, truncated
\* field, failed write, success) every handle fopen returned was closed
\* exactly once when the call returns, and fclose was never called on a
\* handle that was not opened: the calls are none, or one fopen followed by
\* one fclose of that handle.
C12_HandlesReleased ==
    CallReturned => fs.calls \in { <<>>, <<"fopen", "fclose">> }

\* a load that opened the file and failed past the header has returned
C12_Witness ==
    /\ loaded.called /\ ~loaded.has /\ phase # "aborted"
    /\ Len(loaded.content) > 4 + 2 + 4 + 4
    /\ ~BadMagic(loaded.content) /\ ~BadVersion(loaded.content)
    /\ fs.calls = <<"fopen", "fclose">>

(***************************************************************************)
(* The scene under the operations that take it by const reference,         *)
(* checked under SpecConst.                                                *)
(***************************************************************************)
\* a step of evaluate(scene, object, point), from the call to the return
EvaluateStep == ev' # ev
\* the step store_to_file(scene, path) takes
StoreStep == stored' # stored

\* C13: evaluate(scene, object, point) and store_to_file(scene, path),
\* whether the store succeeds or fails at any write, leave every object,
\* primitive, operation and shared primitive of the scene, and every vector
\* length, as they were before the call.
C13_SceneUnchanged == [][(EvaluateStep \/ StoreStep) => scene' = scene]_vars

\* a store that failed at a write inside the first object has returned
C13_Witness ==
    /\ stored = "false" /\ fs.exists
    /\ Len(fs.bytes) > 4 + 2 + 4
    /\ scene.objects # <<>>
    /\ scene.objects[1].primitives # <<>>

(***************************************************************************)
(* The primitives of a loaded scene, checked under Spec.                   *)
(***************************************************************************)
\* the kind is constant, plane or circle and the payload is that kind's
ValidVariant(p) ==
    \/ p.kind = KindFloat1 /\ Len(p.data) = 4
    \/ p.kind = KindPlane /\ Len(p.data) = 12
    \/ p.kind = KindCircle /\ Len(p.data) = 12

\* C14: every primitive, object-local or scene-shared, of a scene returned
\* by load_from_file has a kind tag that is one of constant (0), plane (4)
\* or circle (5), with the payload of that kind read from the file; a file
\* with a primitive record of any other tag does not load successfully.
C14_LoadedVariantsValid ==
    loaded.has =>
        /\ \A i \in 1..Len(loaded.scene.objects) :
              \A j \in 1..Len(loaded.scene.objects[i].primitives) :
                 ValidVariant(loaded.scene.objects[i].primitives[j])
        /\ \A j \in 1..Len(loaded.scene.primitives) :
              ValidVariant(loaded.scene.primitives[j])

(***************************************************************************)
(* Evaluation of a loaded scene, checked under SpecLoaded.                 *)
(***************************************************************************)
\* C15: for a scene returned by a successful load_from_file and any of its
\* objects, evaluate never reads object.primitives, scene.primitives or the
\* operation results buffer at an index greater than or equal to the
\* list's length; a file with an argument index outside its list is turned
\* into a defined failure.
C15_LoadedAccessInBounds ==
    (phase = "loaded" /\ scene = loaded.scene) => ~ev.ub

(***************************************************************************)
(* Properties of the evaluator, checked under SpecEval.                    *)
(***************************************************************************)
\* the value of primitive i (0-based) of the object being evaluated
PrimitiveValue(i) ==
    EvaluatePrimitive(variant, scene, EvObject.primitives[i + 1], ev.point)[2]

MathMin(a, b) == IF a <= b THEN a ELSE b
MathMax(a, b) == IF a >= b THEN a ELSE b

\* the evaluation of an object with primitives A and B and these operations
\* has returned
OperationsAre(ops) ==
    ev.pc = "done" /\ Len(EvObject.primitives) >= 2 /\ EvObject.operations = ops

ObjPrim(i) == object_primitive_index(i)
ObjOp(i) == object_operation_index(variant, i)

\* C4: an object with the single operation min(A, B), max(A, B) or neg(A)
\* over its primitives evaluates to the minimum, the maximum or the negation
\* of the primitives' values at the point; the objects max(neg A, neg B) and
\* neg(min(A, B)) both evaluate to -min(A, B), hence to the same value.
C4_CsgAlgebra ==
    /\ OperationsAre(<<MakeOperation(OpMin, ObjPrim(0), ObjPrim(1))>>)
          => ev.result = Fin(MathMin(PrimitiveValue(0), PrimitiveValue(1)))
    /\ OperationsAre(<<MakeOperation(OpMax, ObjPrim(0), ObjPrim(1))>>)
          => ev.result = Fin(MathMax(PrimitiveValue(0), PrimitiveValue(1)))
    /\ OperationsAre(<<MakeOperation(OpNeg, ObjPrim(0), DefaultArg)>>)
          => ev.result = Fin(-PrimitiveValue(0))
    /\ OperationsAre(<<MakeOperation(OpNeg, ObjPrim(0), DefaultArg),
                       MakeOperation(OpNeg, ObjPrim(1), DefaultArg),
                       MakeOperation(OpMax, ObjOp(0), ObjOp(1))>>)
          => ev.result = Fin(-MathMin(PrimitiveValue(0), PrimitiveValue(1)))
    /\ OperationsAre(<<MakeOperation(OpMin, ObjPrim(0), ObjPrim(1)),
                       MakeOperation(OpNeg, ObjOp(0), DefaultArg)>>)
          => ev.result = Fin(-MathMin(PrimitiveValue(0), PrimitiveValue(1)))

\* max(neg A, neg B) was evaluated for two primitives with different values
C4_Witness ==
    /\ OperationsAre(<<MakeOperation(OpNeg, ObjPrim(0), DefaultArg),
                       MakeOperation(OpNeg, ObjPrim(1), DefaultArg),
                       MakeOperation(OpMax, ObjOp(0), ObjOp(1))>>)
    /\ PrimitiveValue(0) < PrimitiveValue(1)
    /\ ev.result = Fin(-PrimitiveValue(0))

\* the argument is an object_operation reference
IsOperationRef(index) == index.kind = ArgObjectOperationOf(variant)

\* argument `index` of operation i (0-based) refers to an earlier operation
\* or to a primitive that exists
ArgumentValid(object, i, index) ==
    IF IsOperationRef(index) THEN index.value < i
    ELSE IF variant = "base" /\ index.kind = ArgScenePrimitive
    THEN index.value < Len(scene.primitives)
    ELSE index.value < Len(object.primitives)

\* every argument an operation uses is valid
WellFormed(object) ==
    \A i \in 1..Len(object.operations) : \A j \in ArgsUsed(object.operations[i]) :
        ArgumentValid(object, i - 1, object.operations[i].args[j])

\* the value of the expression rooted at operation i (0-based)
RECURSIVE ExprValue(_, _)
ArgExprValue(object, index) ==
    IF IsOperationRef(index) THEN ExprValue(object, index.value)
    ELSE IF variant = "base" /\ index.kind = ArgScenePrimitive
    THEN EvaluatePrimitive(variant, scene, scene.primitives[index.value + 1], ev.point)[2]
    ELSE EvaluatePrimitive(variant, scene, object.primitives[index.value + 1], ev.point)[2]
ExprValue(object, i) ==
    CASE object.operations[i + 1].kind = OpMin ->
            MathMin(ArgExprValue(object, object.operations[i + 1].args[1]),
                    ArgExprValue(object, object.operations[i + 1].args[2]))
      [] object.operations[i + 1].kind = OpMax ->
            MathMax(ArgExprValue(object, object.operations[i + 1].args[1]),
                    ArgExprValue(object, object.operations[i + 1].args[2]))
      [] object.operations[i + 1].kind = OpNeg ->
            -ArgExprValue(object, object.operations[i + 1].args[1])

\* C5: for an object whose object_operation arguments name earlier
\* operations and whose primitive indexes are in bounds, evaluate writes the
\* results in increasing index order, never reads a result not yet written
\* nor out of bounds, has stored in each slot written the value of the
\* expression rooted there, and returns the last operation's.
C5_InOrderDag ==
    (ev.pc \in {"loop", "done"} /\ EvObject.operations # <<>> /\ WellFormed(EvObject)) =>
        /\ ev.order = [k \in 1..ev.operation_index |-> k - 1]
        /\ ~ev.stale /\ ~ev.ub
        /\ \A k \in 1..ev.operation_index :
              ev.operation_results[k] = Fin(ExprValue(EvObject, k - 1))
        /\ ev.pc = "done" =>
              /\ ev.operation_index = Len(EvObject.operations)
              /\ ev.result = Fin(ExprValue(EvObject, Len(EvObject.operations) - 1))

\* the example's square with a carved circle was evaluated to its end
C5_Witness ==
    /\ ev.pc = "done"
    /\ Len(EvObject.operations) = 5
    /\ WellFormed(EvObject)
    /\ EvObject.operations[5].args[1] = ObjOp(2)
    /\ ev.order = <<0, 1, 2, 3, 4>>
    /\ ev.result = Fin(12)

\* operation i (0-based) uses an argument that refers to itself or forward
HasForwardRef(object, i) ==
    \E j \in ArgsUsed(object.operations[i + 1]) :
        /\ IsOperationRef(object.operations[i + 1].args[j])
        /\ object.operations[i + 1].args[j].value >= i
        /\ object.operations[i + 1].args[j].value < Len(object.operations)

\* C6: an operation with an object_operation argument naming itself or a
\* later operation of the object evaluates to NaN, in whichever slot the
\* reference is, for min, max and neg.
C6_ForwardRefIsNaN ==
    (ev.pc \in {"loop", "done"} /\ ~ev.ub) =>
        \A k \in 1..ev.operation_index :
            HasForwardRef(EvObject, k - 1) => ev.operation_results[k] = NaN

\* the object has neither operations nor primitives
EmptyObject(object) == object.operations = <<>> /\ object.primitives = <<>>

\* C7: an object with no operations and no primitives evaluates to
\* +infinity, in both variants, whatever the scene's shared primitives and
\* scale.
C7_EmptyObjectInfinity ==
    (ev.pc = "done" /\ EmptyObject(EvObject)) => ev.result = Infinity

\* an empty object was evaluated in a scene with a scale set
C7_Witness ==
    /\ ev.pc = "done" /\ EmptyObject(EvObject)
    /\ variant = "scaled" /\ scene.scale # <<1, 1>>
    /\ ev.result = Infinity

\* C8: an object without primitives evaluates to infinity, whatever its
\* operations (an evaluation that indexed a vector out of bounds aside).
C8_NoPrimitivesInfinity ==
    (ev.pc = "done" /\ ~ev.ub /\ EvObject.primitives = <<>>) => ev.result = Infinity

====
